---- MODULE Spec2Model ----
(***************************************************************************)
(* Host side of the serial control protocol of alex_control_wasd_test_2.py *)
(* (receivePacket, sendPacket, parseParams, parseUserInput,                *)
(* waitForHelloRoutine) together with the frame codec and the enumerations *)
(* the module imports from its sibling modules.                            *)
(***************************************************************************)
EXTENDS Integers, Sequences, FiniteSets, TLC

(***************************************************************************)
(* Bounds of the model.                                                    *)
(***************************************************************************)
\* bytes of one params slot on the wire
ParamWidth == 1
\* bytes of the opaque data field
DataLen == 1
\* frames' worth of bytes the serial input may hold unread
MaxRxFrames == 1
\* parameter tokens on an input line
MaxLineParams == 3

(***************************************************************************)
(* Imported protocol constants (alex_control_constants).                   *)
(***************************************************************************)
PAYLOAD_PARAMS_COUNT == 16

TPacketType ==
  [PACKET_TYPE_COMMAND |-> 0, PACKET_TYPE_RESPONSE |-> 1,
   PACKET_TYPE_ERROR |-> 2, PACKET_TYPE_HELLO |-> 4]

TCommandType ==
  [COMMAND_FORWARD |-> 0, COMMAND_REVERSE |-> 1, COMMAND_TURN_LEFT |-> 2,
   COMMAND_TURN_RIGHT |-> 3, COMMAND_STOP |-> 4, COMMAND_GET_STATS |-> 5,
   COMMAND_CLEAR_STATS |-> 6]

TResponseType == [RESP_OK |-> 0, RESP_BAD_COMMAND |-> 4]

TResultType ==
  [PACKET_OK |-> "PACKET_OK", PACKET_BAD |-> "PACKET_BAD",
   PACKET_CHECKSUM_BAD |-> "PACKET_CHECKSUM_BAD",
   PACKET_INCOMPLETE |-> "PACKET_INCOMPLETE"]

COMMS_MAGIC_NUMBER == <<252>>

COMMS_PACKET_SIZE ==
  Len(COMMS_MAGIC_NUMBER) + 2 + PAYLOAD_PARAMS_COUNT * ParamWidth + DataLen + 1

(***************************************************************************)
(* Python values: an int, a str (a sequence of characters), None.          *)
(***************************************************************************)
PyInt(n) == [t |-> "int", n |-> n, s |-> <<>>]
PyStr(s) == [t |-> "str", n |-> 0, s |-> s]

Digits == <<"0", "1", "2", "3", "4", "5", "6", "7", "8", "9">>

IsDigit(c) == \E d \in 1..10 : Digits[d] = c

DigitVal(c) == (CHOOSE d \in 1..10 : Digits[d] = c) - 1

RECURSIVE DecimalValue(_)
DecimalValue(s) ==
  IF s = <<>> THEN 0
  ELSE 10 * DecimalValue(SubSeq(s, 1, Len(s) - 1)) + DigitVal(s[Len(s)])

\* int(x) raises ValueError on a str that is no decimal literal
IntRaises(x) ==
  x.t = "str" /\ (x.s = <<>> \/ \E i \in 1..Len(x.s) : ~IsDigit(x.s[i]))

IntOf(x) == IF x.t = "int" THEN x.n ELSE DecimalValue(x.s)

(***************************************************************************)
(* Packets and the frame codec (alex_control_serialize).                   *)
(***************************************************************************)
ZeroData == [i \in 1..DataLen |-> 0]

ZeroParams == [i \in 1..PAYLOAD_PARAMS_COUNT |-> 0]

TPacket == [packetType |-> 0, command |-> 0, params |-> ZeroParams, data |-> ZeroData]

PyNone == [packetType |-> -1, command |-> -1, params |-> <<>>, data |-> <<>>]

RECURSIVE SumSeq(_)
SumSeq(s) == IF s = <<>> THEN 0 ELSE s[1] + SumSeq(Tail(s))

checksum(bytes) == SumSeq(bytes) % 256

\* little-endian bytes of an unsigned value in a slot of ParamWidth bytes
RECURSIVE ToBytes(_, _)
ToBytes(v, w) == IF w = 0 THEN <<>> ELSE <<v % 256>> \o ToBytes(v \div 256, w - 1)

RECURSIVE FromBytes(_)
FromBytes(b) == IF b = <<>> THEN 0 ELSE b[1] + 256 * FromBytes(Tail(b))

RECURSIVE ParamBytes(_)
ParamBytes(ps) ==
  IF ps = <<>> THEN <<>> ELSE ToBytes(ps[1], ParamWidth) \o ParamBytes(Tail(ps))

\* serialize with the checksum taken over the fields only, the magic marker
\* left out
serialize_checksumSkipsMagic(p) ==
  LET fields == <<p.packetType % 256, p.command % 256>> \o ParamBytes(p.params) \o p.data
  IN  COMMS_MAGIC_NUMBER \o fields \o <<checksum(fields)>>

serialize(p) ==
  LET body == COMMS_MAGIC_NUMBER \o <<p.packetType % 256, p.command % 256>>
              \o ParamBytes(p.params) \o p.data
  IN  body \o <<checksum(body)>>

ParamsOffset == Len(COMMS_MAGIC_NUMBER) + 2

\* deserialize comparing the checksum before the magic marker
deserialize_checksumFirst(buf) ==
  LET n == Len(buf)
      m == Len(COMMS_MAGIC_NUMBER)
  IN  IF n < COMMS_PACKET_SIZE
        THEN [status |-> TResultType.PACKET_INCOMPLETE, payload |-> PyNone]
      ELSE IF checksum(SubSeq(buf, 1, n - 1)) # buf[n]
        THEN [status |-> TResultType.PACKET_CHECKSUM_BAD, payload |-> PyNone]
      ELSE IF SubSeq(buf, 1, m) # COMMS_MAGIC_NUMBER
        THEN [status |-> TResultType.PACKET_BAD, payload |-> PyNone]
      ELSE [status |-> TResultType.PACKET_OK,
            payload |->
              [packetType |-> buf[m + 1],
               command |-> buf[m + 2],
               params |->
                 [i \in 1..PAYLOAD_PARAMS_COUNT |->
                    FromBytes(SubSeq(buf, ParamsOffset + (i - 1) * ParamWidth + 1,
                                     ParamsOffset + i * ParamWidth))],
               data |-> SubSeq(buf, ParamsOffset + PAYLOAD_PARAMS_COUNT * ParamWidth + 1,
                               n - 1)]]

deserialize(buf) ==
  LET n == Len(buf)
      m == Len(COMMS_MAGIC_NUMBER)
  IN  IF n < COMMS_PACKET_SIZE
        THEN [status |-> TResultType.PACKET_INCOMPLETE, payload |-> PyNone]
      ELSE IF SubSeq(buf, 1, m) # COMMS_MAGIC_NUMBER
        THEN [status |-> TResultType.PACKET_BAD, payload |-> PyNone]
      ELSE IF checksum(SubSeq(buf, 1, n - 1)) # buf[n]
        THEN [status |-> TResultType.PACKET_CHECKSUM_BAD, payload |-> PyNone]
      ELSE [status |-> TResultType.PACKET_OK,
            payload |->
              [packetType |-> buf[m + 1],
               command |-> buf[m + 2],
               params |->
                 [i \in 1..PAYLOAD_PARAMS_COUNT |->
                    FromBytes(SubSeq(buf, ParamsOffset + (i - 1) * ParamWidth + 1,
                                     ParamsOffset + i * ParamWidth))],
               data |-> SubSeq(buf, ParamsOffset + PAYLOAD_PARAMS_COUNT * ParamWidth + 1,
                               n - 1)]]


(***************************************************************************)
(* State.                                                                  *)
(***************************************************************************)
VARIABLES
  ack_received,   \* the module global of line 234
  events,         \* the Event objects: is_set() of each
  rx,             \* bytes in the serial input, not yet read
  pending,        \* the remote holds a frame it has not answered
  pc,             \* where the calling thread is
  call,           \* the receivePacket activation in progress
  buffer,         \* receivePacket's buffer[0:buffer_size]
  packet,         \* waitForHelloRoutine's local of that name
  hist,           \* the last completed call and what it did
  prevSend,       \* how the last sendPacket ended, "none" once a receive returned a packet
  sendClosedGate, \* a sendPacket closed the gate and no receivePacket has returned since
  typed,          \* the line at the terminal and the reply to a prompt, not yet read
  loop            \* the run_keypress_control activation: its locals and what it did

vars ==
  <<ack_received, events, rx, pending, pc, call, buffer, packet, hist,
    prevSend, sendClosedGate, typed, loop>>

EventNames == {"_EXIT_EVENT", "custom"}

NoCall ==
  [flag |-> "_EXIT_EVENT", caller |-> "none", gateAtEntry |-> TRUE,
   eventsAtEntry |-> [e \in EventNames |-> FALSE],
   setAtEntry |-> FALSE, setWhileShort |-> FALSE, arrived |-> <<>>,
   chunks |-> 0, zeroRead |-> FALSE, afterSend |-> FALSE, helloGate |-> TRUE,
   helloWrote |-> <<>>]

\* what a parseUserInput call returned and did
NoResult ==
  [kind |-> "none", packetType |-> -1, command |-> -1, params |-> <<>>,
   prompts |-> 0, sets |-> "none", printed |-> "none"]

NoHist ==
  [op |-> "none", outcome |-> "none", gateBefore |-> TRUE, gateAfter |-> TRUE,
   eventsBefore |-> [e \in EventNames |-> FALSE],
   eventsAfter |-> [e \in EventNames |-> FALSE],
   wrote |-> <<>>, raised |-> FALSE, ret |-> PyNone, args |-> <<>>,
   prevSend |-> "none", decodes |-> 0, decodedLen |-> 0, call |-> NoCall,
   result |-> NoResult]

\* no activation of run_keypress_control yet
NoLoop ==
  [flag |-> "_EXIT_EVENT", speed |-> <<>>, key |-> "none", select |-> "none",
   called |-> "none", args |-> <<>>, wrote |-> <<>>, gateBefore |-> TRUE,
   gateAfter |-> TRUE, how |-> "none"]

NoTyped ==
  [present |-> FALSE,
   in |-> [toks |-> <<>>, sep |-> <<>>, lead |-> <<>>, trail |-> <<>>],
   reply |-> <<>>]

\* the state after import, but for the terminal
Imported ==
  /\ ack_received = TRUE
  /\ events = [e \in EventNames |-> FALSE]
  /\ rx = <<>>
  /\ pending = FALSE
  /\ pc = "idle"
  /\ call = NoCall
  /\ buffer = <<>>
  /\ packet = PyNone
  /\ hist = NoHist
  /\ prevSend = "none"
  /\ sendClosedGate = FALSE
  /\ loop = NoLoop

Init == Imported /\ typed = NoTyped

(***************************************************************************)
(* sendPacket, lines 74-100.                                               *)
(***************************************************************************)
ParamModulus == 256 ^ ParamWidth

\* lines 91-97: the packet built from the arguments, or the ValueError of
\* int(x) or of the slice assignment to the fixed-length params array
buildPacket(packetType, commandType, params) ==
  IF params = <<>>
    THEN [raised |-> FALSE,
          packet |-> [TPacket EXCEPT !.packetType = packetType, !.command = commandType]]
  ELSE IF \E i \in 1..Len(params) : IntRaises(params[i])
    THEN [raised |-> TRUE, packet |-> TPacket]
  ELSE IF Len(params) # PAYLOAD_PARAMS_COUNT
    THEN [raised |-> TRUE, packet |-> TPacket]
  ELSE [raised |-> FALSE,
        packet |->
          [TPacket EXCEPT !.packetType = packetType, !.command = commandType,
                          !.params = [i \in 1..PAYLOAD_PARAMS_COUNT |->
                                        IntOf(params[i]) % ParamModulus]]]

\* sendPacket without line 90: the gate is left open by a send
sendPacket_keepsGate(gate, packetType, commandType, params) ==
  IF ~gate
    THEN [ack |-> gate, wrote |-> <<>>, raised |-> FALSE, outcome |-> "refused"]
  ELSE LET b == buildPacket(packetType, commandType, params)
       IN  IF b.raised
             THEN [ack |-> gate, wrote |-> <<>>, raised |-> TRUE, outcome |-> "raised"]
             ELSE [ack |-> gate, wrote |-> <<serialize(b.packet)>>, raised |-> FALSE,
                   outcome |-> "sent"]

\* sendPacket without lines 87-89: the gate is not consulted
sendPacket_noGateCheck(gate, packetType, commandType, params) ==
  LET b == buildPacket(packetType, commandType, params)
  IN  IF b.raised
        THEN [ack |-> FALSE, wrote |-> <<>>, raised |-> TRUE, outcome |-> "raised"]
        ELSE [ack |-> FALSE, wrote |-> <<serialize(b.packet)>>, raised |-> FALSE,
              outcome |-> "sent"]

\* the whole call: the gate afterwards, the frames written, whether it raised
sendPacket(gate, packetType, commandType, params) ==
  IF ~gate
    THEN [ack |-> gate, wrote |-> <<>>, raised |-> FALSE, outcome |-> "refused"]
  ELSE LET b == buildPacket(packetType, commandType, params)
       IN  IF b.raised
             THEN [ack |-> FALSE, wrote |-> <<>>, raised |-> TRUE, outcome |-> "raised"]
             ELSE [ack |-> FALSE, wrote |-> <<serialize(b.packet)>>, raised |-> FALSE,
                   outcome |-> "sent"]

\* the state change of one sendPacket call
DoSend(packetType, commandType, params) ==
  LET r == sendPacket(ack_received, packetType, commandType, params)
  IN  /\ ack_received' = r.ack
      /\ pending' = (pending \/ r.wrote # <<>>)
      /\ prevSend' = r.outcome
      /\ sendClosedGate' = (sendClosedGate \/ (ack_received /\ ~r.ack))
      /\ hist' = [NoHist EXCEPT !.op = "send", !.outcome = r.outcome,
                    !.gateBefore = ack_received, !.gateAfter = r.ack,
                    !.eventsBefore = events, !.eventsAfter = events,
                    !.wrote = r.wrote, !.raised = r.raised,
                    !.args = <<packetType, commandType, params>>,
                    !.prevSend = prevSend]


(***************************************************************************)
(* receivePacket, lines 37-71.                                             *)
(***************************************************************************)
Min(a, b) == IF a < b THEN a ELSE b

\* the first frame's worth of the bytes that reach a receivePacket call
FirstFrame(bytes) == SubSeq(bytes, 1, Min(Len(bytes), COMMS_PACKET_SIZE))

InReceive == pc \in {"recv_check", "recv_read"}

\* readRequest asking for a whole frame whatever the buffer holds
readRequest_wholeFrame(buf) == COMMS_PACKET_SIZE

\* line 56: the size asked of readSerial
readRequest(buf) == COMMS_PACKET_SIZE - Len(buf)

\* receiveRead without line 69: a decode failure leaves the gate as it was
receiveRead_errorKeepsGate(gate, buf, res) ==
  LET b == IF Len(res) # 0 THEN buf \o res ELSE buf
  IN  IF Len(b) = COMMS_PACKET_SIZE
        THEN LET d == deserialize(b)
             IN  IF d.status = TResultType.PACKET_OK
                   THEN [done |-> TRUE, buffer |-> b, ack |-> TRUE, ret |-> d.payload,
                         outcome |-> "packet", decodes |-> 1, decodedLen |-> Len(b),
                         status |-> d.status]
                   ELSE [done |-> TRUE, buffer |-> b, ack |-> gate, ret |-> PyNone,
                         outcome |-> "decode_error", decodes |-> 1,
                         decodedLen |-> Len(b), status |-> d.status]
        ELSE [done |-> FALSE, buffer |-> b, ack |-> gate, ret |-> PyNone,
              outcome |-> "none", decodes |-> 0, decodedLen |-> 0,
              status |-> TResultType.PACKET_INCOMPLETE]

\* receiveRead with line 59 storing at the front of the buffer
receiveRead_storesAtFront(gate, buf, res) ==
  LET b == IF Len(res) # 0 THEN res \o buf ELSE buf
  IN  IF Len(b) = COMMS_PACKET_SIZE
        THEN LET d == deserialize(b)
             IN  IF d.status = TResultType.PACKET_OK
                   THEN [done |-> TRUE, buffer |-> b, ack |-> TRUE, ret |-> d.payload,
                         outcome |-> "packet", decodes |-> 1, decodedLen |-> Len(b),
                         status |-> d.status]
                   ELSE [done |-> TRUE, buffer |-> b, ack |-> FALSE, ret |-> PyNone,
                         outcome |-> "decode_error", decodes |-> 1,
                         decodedLen |-> Len(b), status |-> d.status]
        ELSE [done |-> FALSE, buffer |-> b, ack |-> gate, ret |-> PyNone,
              outcome |-> "none", decodes |-> 0, decodedLen |-> 0,
              status |-> TResultType.PACKET_INCOMPLETE]

\* lines 58-70 after one readSerial returned res: the buffer, and when it is
\* full the decode, the gate and the value returned
receiveRead(gate, buf, res) ==
  LET b == IF Len(res) # 0 THEN buf \o res ELSE buf
  IN  IF Len(b) = COMMS_PACKET_SIZE
        THEN LET d == deserialize(b)
             IN  IF d.status = TResultType.PACKET_OK
                   THEN [done |-> TRUE, buffer |-> b, ack |-> TRUE, ret |-> d.payload,
                         outcome |-> "packet", decodes |-> 1, decodedLen |-> Len(b),
                         status |-> d.status]
                   ELSE [done |-> TRUE, buffer |-> b, ack |-> FALSE, ret |-> PyNone,
                         outcome |-> "decode_error", decodes |-> 1,
                         decodedLen |-> Len(b), status |-> d.status]
        ELSE [done |-> FALSE, buffer |-> b, ack |-> gate, ret |-> PyNone,
              outcome |-> "none", decodes |-> 0, decodedLen |-> 0,
              status |-> TResultType.PACKET_INCOMPLETE]

\* lines 52-54: a new activation, its buffer empty
RecvEnter(flag, caller, gate, closedBySend, helloGate, helloWrote) ==
  /\ pc' = "recv_check"
  /\ buffer' = <<>>
  /\ call' = [NoCall EXCEPT !.flag = flag, !.caller = caller, !.gateAtEntry = gate,
                !.eventsAtEntry = events, !.setAtEntry = events[flag],
                !.arrived = FirstFrame(rx), !.afterSend = closedBySend,
                !.helloGate = helloGate, !.helloWrote = helloWrote]

\* the return of the activation to its caller
RecvReturn(r, c) ==
  /\ packet' = IF c.caller = "hello" THEN r.ret ELSE PyNone
  /\ pc' = IF c.caller = "hello" THEN "hello_check"
           ELSE IF c.caller = "loop" THEN "loop_poll"
           ELSE "idle"
  /\ ack_received' = r.ack
  /\ buffer' = <<>>
  /\ call' = NoCall
  /\ sendClosedGate' = FALSE
  /\ prevSend' = IF r.outcome = "packet" THEN "none" ELSE prevSend
  /\ hist' = IF c.caller = "loop"
               THEN [NoHist EXCEPT !.op = "recv", !.outcome = r.outcome,
                                   !.gateAfter = r.ack]
               ELSE [NoHist EXCEPT !.op = "recv", !.outcome = r.outcome,
                       !.gateBefore = c.gateAtEntry, !.gateAfter = r.ack,
                       !.eventsBefore = c.eventsAtEntry, !.eventsAfter = events,
                       !.ret = r.ret, !.decodes = r.decodes, !.decodedLen = r.decodedLen,
                       !.call = c]
  /\ loop' = IF c.caller = "loop"
               THEN [loop EXCEPT !.key = "none", !.called = "none", !.args = <<>>,
                                 !.wrote = <<>>, !.gateBefore = TRUE, !.gateAfter = TRUE]
               ELSE loop

\* line 71 leaving the gate closed
receiveCancelled_closesGate(gate) ==
  [ret |-> PyNone, ack |-> FALSE, outcome |-> "cancelled", decodes |-> 0, decodedLen |-> 0]

\* line 71: what the call returns and leaves once the flag is seen set
receiveCancelled(gate) ==
  [ret |-> PyNone, ack |-> gate, outcome |-> "cancelled", decodes |-> 0, decodedLen |-> 0]

\* line 55: the loop condition; line 71 when the flag is set
RecvCheck ==
  /\ pc = "recv_check"
  /\ IF events[call.flag]
       THEN /\ RecvReturn(receiveCancelled(ack_received), call)
            /\ UNCHANGED <<events, rx, pending, typed>>
       ELSE /\ pc' = "recv_read"
            /\ UNCHANGED <<ack_received, events, rx, pending, call, buffer, packet, hist,
                           prevSend, sendClosedGate, typed, loop>>

\* lines 56-70 with readSerial returning the first k bytes that have arrived
RecvStep(k) ==
  LET res == SubSeq(rx, 1, k)
      r == receiveRead(ack_received, buffer, res)
      c == [call EXCEPT !.chunks = IF k > 0 THEN Min(@ + 1, 2) ELSE @,
                        !.zeroRead = @ \/ k = 0]
  IN  /\ rx' = SubSeq(rx, k + 1, Len(rx))
      /\ IF r.done
           THEN RecvReturn(r, c)
           ELSE /\ pc' = "recv_check"
                /\ buffer' = r.buffer
                /\ call' = c
                /\ UNCHANGED <<ack_received, packet, hist, prevSend, sendClosedGate,
                               loop>>
      /\ UNCHANGED <<events, pending, typed>>

\* readSerial returns any number of the arrived bytes, up to the size asked
RecvRead ==
  /\ pc = "recv_read"
  /\ \E k \in 0..Min(readRequest(buffer), Len(rx)) : RecvStep(k)

\* readSerial returns nothing, or all it was asked for that has arrived
RecvReadAll ==
  /\ pc = "recv_read"
  /\ \E k \in {0, Min(readRequest(buffer), Len(rx))} : RecvStep(k)

(***************************************************************************)
(* waitForHelloRoutine, lines 210-226.                                     *)
(***************************************************************************)
\* helloAccepts without the test of line 223
helloAccepts_anyResponse(p) ==
  /\ p # PyNone
  /\ p.packetType = TPacketType.PACKET_TYPE_RESPONSE

\* lines 219-226: TRUE when the routine returns, FALSE when it raises
helloAccepts(p) ==
  /\ p # PyNone
  /\ p.packetType = TPacketType.PACKET_TYPE_RESPONSE
  /\ p.command = TResponseType.RESP_OK

\* lines 215-217: the HELLO send, then the call of receivePacket()
HelloStart ==
  /\ pc = "idle"
  /\ DoSend(TPacketType.PACKET_TYPE_HELLO, TCommandType.COMMAND_STOP,
            [i \in 1..PAYLOAD_PARAMS_COUNT |-> PyInt(0)])
  /\ RecvEnter("_EXIT_EVENT", "hello", ack_received', sendClosedGate', ack_received,
               hist'.wrote)
  /\ UNCHANGED <<events, rx, packet, typed, loop>>

\* lines 218-226
HelloCheck ==
  /\ pc = "hello_check"
  /\ pc' = "idle"
  /\ hist' = [hist EXCEPT !.op = "hello",
                !.outcome = IF helloAccepts(packet) THEN "returned" ELSE "raised",
                !.raised = ~helloAccepts(packet),
                !.wrote = hist.call.helloWrote]
  /\ packet' = PyNone
  /\ UNCHANGED <<ack_received, events, rx, pending, call, buffer,
                 prevSend, sendClosedGate, typed, loop>>

(***************************************************************************)
(* parseParams and parseUserInput, lines 144-204.  A str is a sequence of  *)
(* one-character strings.                                                  *)
(***************************************************************************)
Whitespace == {" ", "\t", "\n"}

\* str.strip()
RECURSIVE LStrip(_)
LStrip(s) == IF s # <<>> /\ s[1] \in Whitespace THEN LStrip(Tail(s)) ELSE s

RECURSIVE RStrip(_)
RStrip(s) ==
  IF s # <<>> /\ s[Len(s)] \in Whitespace THEN RStrip(SubSeq(s, 1, Len(s) - 1)) ELSE s

Strip(s) == RStrip(LStrip(s))

\* str.split(" "): the pieces between single spaces, empty pieces included
RECURSIVE SplitSpace(_)
SplitSpace(s) ==
  IF \A i \in 1..Len(s) : s[i] # " "
    THEN <<s>>
    ELSE LET i == CHOOSE j \in 1..Len(s) :
                    s[j] = " " /\ \A h \in 1..(j - 1) : s[h] # " "
         IN  <<SubSeq(s, 1, i - 1)>> \o SplitSpace(SubSeq(s, i + 1, Len(s)))

RECURSIVE NonEmpty(_)
NonEmpty(toks) ==
  IF toks = <<>> THEN <<>>
  ELSE IF toks[1] = <<>> THEN NonEmpty(Tail(toks))
  ELSE <<toks[1]>> \o NonEmpty(Tail(toks))

\* line 164
splitInput(input_str) == NonEmpty(SplitSpace(Strip(input_str)))

Zeros(n) == [i \in 1..n |-> PyInt(0)]

StrItems(toks) == [i \in 1..Len(toks) |-> PyStr(toks[i])]

\* parseParams keeping every token given, lines 150-151 without the [:num_p]
RECURSIVE parseParams_keepsExcess(_, _, _, _)
parseParams_keepsExcess(p, num_p, hasMessage, reply) ==
  IF num_p = 0
    THEN [ok |-> TRUE, params |-> StrItems(p) \o Zeros(PAYLOAD_PARAMS_COUNT - num_p),
          prompts |-> 0]
  ELSE IF Len(p) >= num_p
    THEN [ok |-> TRUE, params |-> StrItems(p) \o Zeros(PAYLOAD_PARAMS_COUNT - num_p),
          prompts |-> 0]
  ELSE IF hasMessage
    THEN LET r == parseParams_keepsExcess(SplitSpace(reply), num_p, FALSE, reply)
         IN  [r EXCEPT !.prompts = @ + 1]
  ELSE [ok |-> FALSE, params |-> <<>>, prompts |-> 0]

\* parseParams with line 157 returning the zero list instead of None
RECURSIVE parseParams_unresolvedGivesZeros(_, _, _, _)
parseParams_unresolvedGivesZeros(p, num_p, hasMessage, reply) ==
  IF num_p = 0
    THEN [ok |-> TRUE, params |-> Zeros(PAYLOAD_PARAMS_COUNT), prompts |-> 0]
  ELSE IF Len(p) >= num_p
    THEN [ok |-> TRUE,
          params |-> StrItems(SubSeq(p, 1, num_p)) \o Zeros(PAYLOAD_PARAMS_COUNT - num_p),
          prompts |-> 0]
  ELSE IF hasMessage
    THEN LET r == parseParams_unresolvedGivesZeros(SplitSpace(reply), num_p, FALSE, reply)
         IN  [r EXCEPT !.prompts = @ + 1]
  ELSE [ok |-> TRUE, params |-> Zeros(PAYLOAD_PARAMS_COUNT), prompts |-> 0]

\* parseParams with line 155 reparsing the line's values followed by the reply's
RECURSIVE parseParams_keepsLineValues(_, _, _, _)
parseParams_keepsLineValues(p, num_p, hasMessage, reply) ==
  IF num_p = 0
    THEN [ok |-> TRUE, params |-> Zeros(PAYLOAD_PARAMS_COUNT), prompts |-> 0]
  ELSE IF Len(p) >= num_p
    THEN [ok |-> TRUE,
          params |-> StrItems(SubSeq(p, 1, num_p)) \o Zeros(PAYLOAD_PARAMS_COUNT - num_p),
          prompts |-> 0]
  ELSE IF hasMessage
    THEN LET r == parseParams_keepsLineValues(p \o SplitSpace(reply), num_p, FALSE, reply)
         IN  [r EXCEPT !.prompts = @ + 1]
  ELSE [ok |-> FALSE, params |-> <<>>, prompts |-> 0]

\* lines 144-157; hasMessage: inputMessage is not None; reply: what input()
\* returns if it is called
RECURSIVE parseParams(_, _, _, _)
parseParams(p, num_p, hasMessage, reply) ==
  IF num_p = 0
    THEN [ok |-> TRUE, params |-> Zeros(PAYLOAD_PARAMS_COUNT), prompts |-> 0]
  ELSE IF Len(p) >= num_p
    THEN [ok |-> TRUE,
          params |-> StrItems(SubSeq(p, 1, num_p)) \o Zeros(PAYLOAD_PARAMS_COUNT - num_p),
          prompts |-> 0]
  ELSE IF hasMessage
    THEN LET r == parseParams(SplitSpace(reply), num_p, FALSE, reply)
         IN  [r EXCEPT !.prompts = @ + 1]
  ELSE [ok |-> FALSE, params |-> <<>>, prompts |-> 0]

\* lines 170-197: the command, the arity and whether a prompt message is passed
CommandTable ==
  [f |-> [command |-> TCommandType.COMMAND_FORWARD, num_p |-> 2, hasMessage |-> TRUE],
   b |-> [command |-> TCommandType.COMMAND_REVERSE, num_p |-> 2, hasMessage |-> TRUE],
   l |-> [command |-> TCommandType.COMMAND_TURN_LEFT, num_p |-> 2, hasMessage |-> TRUE],
   r |-> [command |-> TCommandType.COMMAND_TURN_RIGHT, num_p |-> 2, hasMessage |-> TRUE],
   s |-> [command |-> TCommandType.COMMAND_STOP, num_p |-> 0, hasMessage |-> FALSE],
   c |-> [command |-> TCommandType.COMMAND_CLEAR_STATS, num_p |-> 0, hasMessage |-> FALSE],
   g |-> [command |-> TCommandType.COMMAND_GET_STATS, num_p |-> 0, hasMessage |-> FALSE]]

\* parseUserInput comparing only the first character of the first token with
\* the command letters
parseUserInput_matchesFirstCharacter(input_str, exitFlag, reply) ==
  LET split_input == splitInput(input_str)
  IN  IF Len(split_input) < 1
        THEN [NoResult EXCEPT !.printed = "not a valid command"]
      ELSE LET command == split_input[1]
           IN  IF command[1] \in DOMAIN CommandTable
                 THEN LET e == CommandTable[command[1]]
                          r == parseParams(Tail(split_input), e.num_p, e.hasMessage, reply)
                      IN  IF r.ok
                            THEN [NoResult EXCEPT
                                    !.kind = "command",
                                    !.packetType = TPacketType.PACKET_TYPE_COMMAND,
                                    !.command = e.command,
                                    !.params = r.params,
                                    !.prompts = r.prompts]
                            ELSE [NoResult EXCEPT !.printed = "Invalid Parameters",
                                                  !.prompts = r.prompts]
               ELSE IF command = <<"q">>
                 THEN [NoResult EXCEPT !.printed = "Exiting", !.sets = "_EXIT_EVENT"]
               ELSE [NoResult EXCEPT !.printed = "not a valid command"]

\* lines 160-204
parseUserInput(input_str, exitFlag, reply) ==
  LET split_input == splitInput(input_str)
  IN  IF Len(split_input) < 1
        THEN [NoResult EXCEPT !.printed = "not a valid command"]
      ELSE LET command == split_input[1]
           IN  IF Len(command) = 1 /\ command[1] \in DOMAIN CommandTable
                 THEN LET e == CommandTable[command[1]]
                          r == parseParams(Tail(split_input), e.num_p, e.hasMessage, reply)
                      IN  IF r.ok
                            THEN [NoResult EXCEPT
                                    !.kind = "command",
                                    !.packetType = TPacketType.PACKET_TYPE_COMMAND,
                                    !.command = e.command,
                                    !.params = r.params,
                                    !.prompts = r.prompts]
                            ELSE [NoResult EXCEPT !.printed = "Invalid Parameters",
                                                  !.prompts = r.prompts]
               ELSE IF command = <<"q">>
                 THEN [NoResult EXCEPT !.printed = "Exiting", !.sets = "_EXIT_EVENT"]
               ELSE [NoResult EXCEPT !.printed = "not a valid command"]

(***************************************************************************)
(* Calls made by the program using the module.                             *)
(***************************************************************************)
IntList(k) == [i \in 1..k |-> PyInt(i)]

StrList(k) == [i \in 1..k |-> PyStr(<<Digits[(i % 10) + 1]>>)]

BadList(k) == [i \in 1..k |-> IF i = 1 THEN PyStr(<<"x">>) ELSE PyInt(0)]

SendParams ==
  {IntList(k) : k \in 0..(PAYLOAD_PARAMS_COUNT + 1)}
    \cup {StrList(2), StrList(PAYLOAD_PARAMS_COUNT), BadList(PAYLOAD_PARAMS_COUNT)}

SendArgs ==
  {<<TPacketType.PACKET_TYPE_COMMAND, TCommandType.COMMAND_FORWARD, ps>> : ps \in SendParams}
    \cup {<<TPacketType.PACKET_TYPE_HELLO, TCommandType.COMMAND_STOP, ps>> :
            ps \in {<<>>, IntList(2), IntList(PAYLOAD_PARAMS_COUNT)}}

CallSend ==
  /\ pc = "idle"
  /\ \E a \in SendArgs : DoSend(a[1], a[2], a[3])
  /\ UNCHANGED <<events, rx, pc, call, buffer, packet, typed, loop>>

\* one well-formed command, for the specifications that are not about sending
CallSendStop ==
  /\ pc = "idle"
  /\ DoSend(TPacketType.PACKET_TYPE_COMMAND, TCommandType.COMMAND_STOP, <<>>)
  /\ UNCHANGED <<events, rx, pc, call, buffer, packet, typed, loop>>

\* receivePacket(exitFlag)
Receive(flag) ==
  /\ pc = "idle"
  /\ RecvEnter(flag, "api", ack_received, sendClosedGate, TRUE, <<>>)
  /\ hist' = NoHist
  /\ UNCHANGED <<ack_received, events, rx, pending, packet, prevSend,
                 sendClosedGate, typed, loop>>

\* receivePacket(): the flag is the module's own
CallReceive == Receive("_EXIT_EVENT")

\* receivePacket(exitFlag): the flag is the caller's
CallReceiveWith == Receive("custom")

\* the first n tokens of toks joined by sep
RECURSIVE Join(_, _)
Join(toks, sep) ==
  IF toks = <<>> THEN <<>>
  ELSE IF Len(toks) = 1 THEN toks[1]
  ELSE toks[1] \o sep \o Join(Tail(toks), sep)

CommandTokens ==
  {<<"f">>, <<"b">>, <<"l">>, <<"r">>, <<"s">>, <<"c">>, <<"g">>, <<"q">>, <<"x">>,
   <<"f", "f">>}

ParamTokens == {<<"1", "0">>, <<"5", "0">>}

RECURSIVE TokenLists(_)
TokenLists(n) ==
  IF n = 0 THEN {<<>>}
  ELSE TokenLists(n - 1)
         \cup {l \o <<t>> : l \in {x \in TokenLists(n - 1) : Len(x) = n - 1},
                            t \in ParamTokens}

\* the lines typed: a command token and up to MaxLineParams parameter tokens
\* between single or double spaces, or no token at all
LineInputs ==
  {[toks |-> <<c>> \o ps, sep |-> sep, lead |-> lead, trail |-> trail] :
     c \in CommandTokens, ps \in TokenLists(MaxLineParams),
     sep \in {<<" ">>, <<" ", " ">>}, lead \in {<<>>, <<"\t", " ">>},
     trail \in {<<>>, <<" ">>}}
    \cup {[toks |-> <<>>, sep |-> <<" ">>, lead |-> lead, trail |-> <<>>] :
            lead \in {<<>>, <<" ", " ">>}}

Render(in) == in.lead \o Join(in.toks, in.sep) \o in.trail

\* what the operator types at the prompt of line 153
Replies == {<<>>, <<"5", "0">>, <<"1", "0", " ", "5", "0">>, <<"1", "0", " ", " ", "5", "0">>}

\* parseUserInput(input(), flag): the line typed is read and parsed
CallParse ==
  /\ pc = "idle"
  /\ typed.present
  /\ typed' = NoTyped
  /\ \E flag \in EventNames :
       LET r == parseUserInput(Render(typed.in), flag, typed.reply)
       IN  /\ events' = IF r.sets = "none" THEN events ELSE [events EXCEPT ![r.sets] = TRUE]
           /\ hist' = [NoHist EXCEPT !.op = "parse", !.outcome = r.kind,
                         !.gateBefore = ack_received, !.gateAfter = ack_received,
                         !.eventsBefore = events, !.eventsAfter = events',
                         !.args = <<typed.in, IF r.prompts > 0 THEN typed.reply ELSE <<>>,
                                    flag>>,
                         !.result = r]
  /\ UNCHANGED <<ack_received, rx, pending, pc, call, buffer, packet, prevSend,
                 sendClosedGate, loop>>

\* the valid packets given to the codec: every packet type and command, the
\* params at the ends of their range and in between, the data bytes likewise
CodecParams ==
  {ZeroParams,
   [i \in 1..PAYLOAD_PARAMS_COUNT |-> i],
   [i \in 1..PAYLOAD_PARAMS_COUNT |-> IF i = 1 THEN ParamModulus - 1 ELSE 0],
   [i \in 1..PAYLOAD_PARAMS_COUNT |-> IF i = PAYLOAD_PARAMS_COUNT THEN ParamModulus - 2 ELSE 0],
   [i \in 1..PAYLOAD_PARAMS_COUNT |-> ParamModulus - 1]}

CodecPackets ==
  {[packetType |-> t, command |-> c, params |-> ps, data |-> d] :
     t \in {TPacketType[n] : n \in DOMAIN TPacketType},
     c \in {TCommandType[n] : n \in DOMAIN TCommandType},
     ps \in CodecParams,
     d \in [1..DataLen -> {0, 255}]}

\* line 98: to_comms = serialize(packet_to_send)
CallSerialize ==
  /\ pc = "idle"
  /\ \E p \in CodecPackets :
       hist' = [NoHist EXCEPT !.op = "serialize", !.args = <<p>>,
                              !.wrote = <<serialize(p)>>]
  /\ UNCHANGED <<ack_received, events, rx, pending, pc, call, buffer, packet,
                 prevSend, sendClosedGate, typed, loop>>

\* line 63: res_status, payload = deserialize(buffer), the buffer holding the
\* frame just serialized
CallDeserialize ==
  /\ pc = "idle"
  /\ hist.op = "serialize"
  /\ LET d == deserialize(hist.wrote[1])
     IN  hist' = [hist EXCEPT !.op = "deserialize", !.outcome = d.status,
                              !.ret = d.payload, !.decodedLen = Len(hist.wrote[1])]
  /\ UNCHANGED <<ack_received, events, rx, pending, pc, call, buffer, packet,
                 prevSend, sendClosedGate, typed, loop>>

\* the byte with bit k flipped
FlipBit(byte, k) ==
  IF (byte \div (2 ^ k)) % 2 = 1 THEN byte - 2 ^ k ELSE byte + 2 ^ k

\* what happens to a frame on the line: one bit of one byte before the
\* checksum byte flipped, or the magic marker's first byte replaced, the
\* checksum then left as it was or made to fit
Damages ==
  {[kind |-> "flip", at |-> i, bit |-> k, refit |-> FALSE] :
     i \in 1..(COMMS_PACKET_SIZE - 1), k \in 0..7}
    \cup {[kind |-> "magic", at |-> 1, bit |-> v, refit |-> f] :
            v \in {0, 1, 253, 255}, f \in BOOLEAN}

Damaged(frame, d) ==
  LET g == [frame EXCEPT ![d.at] = IF d.kind = "flip" THEN FlipBit(@, d.bit) ELSE d.bit]
  IN  IF d.refit THEN [g EXCEPT ![Len(g)] = checksum(SubSeq(g, 1, Len(g) - 1))] ELSE g

\* line 98 once: the frame of one packet
SerializeFirst ==
  /\ hist.op = "none"
  /\ CallSerialize

\* line 63: res_status, payload = deserialize(buffer), the buffer holding the
\* frame just serialized as it comes off a line that damaged it
CallDeserializeDamaged ==
  /\ pc = "idle"
  /\ hist.op = "serialize"
  /\ \E d \in Damages :
       LET f == Damaged(hist.wrote[1], d)
           r == deserialize(f)
       IN  hist' = [hist EXCEPT !.op = "deserialize_damaged", !.outcome = r.status,
                                !.ret = r.payload, !.decodedLen = Len(f),
                                !.args = <<hist.args[1], d, f>>]
  /\ UNCHANGED <<ack_received, events, rx, pending, pc, call, buffer, packet,
                 prevSend, sendClosedGate, typed, loop>>

(***************************************************************************)
(* run_keypress_control, lines 245-331.                                    *)
(***************************************************************************)
move_distance == <<"2">>

turn_angle == <<"6">>

power_map ==
  [k \in {"1", "2", "3"} |->
     IF k = "1" THEN <<"5", "0">> ELSE IF k = "2" THEN <<"7", "5">> ELSE <<"1", "0", "0">>]

\* what msvcrt.getch() returns: a byte; "ESC" is 0x1b, "undecodable" a byte
\* that is no UTF-8
Keys == {"1", "2", "3", "w", "W", "s", "a", "d", "z", "x", "ESC", "undecodable"}

\* line 276: ch.decode('utf-8').lower()
lower(ch) == IF ch = "W" THEN "w" ELSE ch

\* lines 280, 289-290: t_list with its first two entries assigned
t_list(first, second) ==
  [i \in 1..PAYLOAD_PARAMS_COUNT |->
     IF i = 1 THEN PyStr(first) ELSE IF i = 2 THEN PyStr(second) ELSE PyInt(0)]

NoKeypress == [kind |-> "none", speed |-> <<>>, args |-> <<>>]

\* keypress with the turns of lines 301 and 306 given move_distance
keypress_turnsUseMoveDistance(ch, speed) ==
  LET key == lower(ch)
      command(c, first) ==
        [kind |-> "send", speed |-> speed,
         args |-> <<TPacketType.PACKET_TYPE_COMMAND, c, t_list(first, speed)>>]
  IN  IF ch = "undecodable" THEN [NoKeypress EXCEPT !.kind = "continue", !.speed = speed]
      ELSE IF key \in {"1", "2", "3"}
        THEN [NoKeypress EXCEPT !.kind = "speed", !.speed = power_map[key]]
      ELSE IF key = "w" THEN command(TCommandType.COMMAND_FORWARD, move_distance)
      ELSE IF key = "s" THEN command(TCommandType.COMMAND_REVERSE, move_distance)
      ELSE IF key = "a" THEN command(TCommandType.COMMAND_TURN_LEFT, move_distance)
      ELSE IF key = "d" THEN command(TCommandType.COMMAND_TURN_RIGHT, move_distance)
      ELSE IF key = "z"
        THEN [kind |-> "send", speed |-> speed,
              args |-> <<TPacketType.PACKET_TYPE_COMMAND, TCommandType.COMMAND_STOP,
                         [i \in 1..4 |-> PyStr(<<"0">>)]>>]
      ELSE IF ch = "ESC" THEN [NoKeypress EXCEPT !.kind = "break", !.speed = speed]
      ELSE [NoKeypress EXCEPT !.kind = "other", !.speed = speed]

\* lines 274-319 for the byte ch and the current speed: the branch taken, the
\* speed afterwards and the arguments of the sendPacket call, if any
keypress(ch, speed) ==
  LET key == lower(ch)
      command(c, first) ==
        [kind |-> "send", speed |-> speed,
         args |-> <<TPacketType.PACKET_TYPE_COMMAND, c, t_list(first, speed)>>]
  IN  IF ch = "undecodable" THEN [NoKeypress EXCEPT !.kind = "continue", !.speed = speed]
      ELSE IF key \in {"1", "2", "3"}
        THEN [NoKeypress EXCEPT !.kind = "speed", !.speed = power_map[key]]
      ELSE IF key = "w" THEN command(TCommandType.COMMAND_FORWARD, move_distance)
      ELSE IF key = "s" THEN command(TCommandType.COMMAND_REVERSE, move_distance)
      ELSE IF key = "a" THEN command(TCommandType.COMMAND_TURN_LEFT, turn_angle)
      ELSE IF key = "d" THEN command(TCommandType.COMMAND_TURN_RIGHT, turn_angle)
      ELSE IF key = "z"
        THEN [kind |-> "send", speed |-> speed,
              args |-> <<TPacketType.PACKET_TYPE_COMMAND, TCommandType.COMMAND_STOP,
                         [i \in 1..4 |-> PyStr(<<"0">>)]>>]
      ELSE IF ch = "ESC" THEN [NoKeypress EXCEPT !.kind = "break", !.speed = speed]
      ELSE [NoKeypress EXCEPT !.kind = "other", !.speed = speed]

\* lines 245-268: the call, with its exitFlag
Run(flag) ==
  /\ pc = "idle"
  /\ pc' = "loop_poll"
  /\ loop' = [NoLoop EXCEPT !.flag = flag, !.speed = power_map["1"], !.how = "running"]
  /\ hist' = NoHist
  /\ UNCHANGED <<ack_received, events, rx, pending, call, buffer, packet, prevSend,
                 sendClosedGate, typed>>

\* run_keypress_control()
CallRun == Run("_EXIT_EVENT")

\* run_keypress_control(exitFlag)
CallRunWith == Run("custom")

\* line 270 finding the flag set: the loop ends and the function returns
LoopExit ==
  /\ pc = "loop_poll"
  /\ events[loop.flag]
  /\ pc' = "loop_ended"
  /\ loop' = [loop EXCEPT !.how = "flag"]
  /\ UNCHANGED <<ack_received, events, rx, pending, call, buffer, packet, hist,
                 prevSend, sendClosedGate, typed>>

\* lines 270-321: one iteration with a byte at the keyboard, up to the return
\* to line 270, the break, the exception that leaves the function or the call
\* of receivePacket()
LoopKey ==
  /\ pc = "loop_poll"
  /\ ~events[loop.flag]
  /\ \E ch \in Keys :
       LET k == keypress(ch, loop.speed)
           l == [loop EXCEPT !.key = ch, !.speed = k.speed,
                             !.select = IF k.kind = "speed" THEN lower(ch) ELSE @,
                             !.called = "none", !.args = <<>>, !.wrote = <<>>,
                             !.gateBefore = ack_received, !.gateAfter = ack_received]
       IN  IF k.kind = "continue"
             THEN /\ loop' = l
                  /\ UNCHANGED <<ack_received, events, rx, pending, pc, call, buffer,
                                 packet, hist, prevSend, sendClosedGate, typed>>
           ELSE IF k.kind = "break"
             THEN /\ events' = [events EXCEPT ![loop.flag] = TRUE]
                  /\ pc' = "loop_ended"
                  /\ loop' = [l EXCEPT !.how = "esc"]
                  /\ UNCHANGED <<ack_received, rx, pending, call, buffer, packet, hist,
                                 prevSend, sendClosedGate, typed>>
           ELSE IF k.kind = "send"
             THEN LET r == sendPacket(ack_received, k.args[1], k.args[2], k.args[3])
                      ls == [l EXCEPT !.called = r.outcome, !.args = k.args,
                                      !.wrote = r.wrote, !.gateAfter = r.ack]
                  IN  /\ DoSend(k.args[1], k.args[2], k.args[3])
                      /\ IF r.raised
                           THEN /\ pc' = "loop_ended"
                                /\ loop' = [ls EXCEPT !.how = "raised"]
                                /\ UNCHANGED <<call, buffer>>
                           ELSE /\ loop' = ls
                                /\ RecvEnter("_EXIT_EVENT", "loop", ack_received',
                                             sendClosedGate', TRUE, <<>>)
                      /\ UNCHANGED <<events, rx, packet, typed>>
           ELSE /\ loop' = l
                /\ hist' = [NoHist EXCEPT !.op = "key"]
                /\ RecvEnter("_EXIT_EVENT", "loop", ack_received, sendClosedGate, TRUE, <<>>)
                /\ UNCHANGED <<ack_received, events, rx, pending, packet, prevSend,
                               sendClosedGate, typed>>

(***************************************************************************)
(* The environment: another thread setting an Event, the remote end and    *)
(* the serial line.                                                        *)
(***************************************************************************)
\* Event.set() by another thread
SetEvent(e) ==
  /\ ~events[e]
  /\ events' = [events EXCEPT ![e] = TRUE]
  /\ call' = IF InReceive /\ call.flag = e /\ Len(buffer) < COMMS_PACKET_SIZE
               THEN [call EXCEPT !.setWhileShort = TRUE]
               ELSE call
  /\ UNCHANGED <<ack_received, rx, pending, pc, buffer, packet, hist, prevSend,
                 sendClosedGate, typed, loop>>

ExternalSet == SetEvent("_EXIT_EVENT")

ExternalSetCustom == SetEvent("custom")

Response(resp) ==
  [TPacket EXCEPT !.packetType = TPacketType.PACKET_TYPE_RESPONSE, !.command = resp]

RemotePackets ==
  {Response(TResponseType.RESP_OK),
   [Response(TResponseType.RESP_BAD_COMMAND) EXCEPT !.params[1] = 7],
   [TPacket EXCEPT !.packetType = TPacketType.PACKET_TYPE_ERROR,
                   !.command = TResponseType.RESP_BAD_COMMAND],
   [TPacket EXCEPT !.packetType = TPacketType.PACKET_TYPE_COMMAND,
                   !.command = TCommandType.COMMAND_STOP]}

\* a frame damaged on the line: its first byte, or its last
BadMagic(f) == [f EXCEPT ![1] = (@ + 1) % 256]

BadChecksum(f) == [f EXCEPT ![Len(f)] = (@ + 1) % 256]

RemoteFrames ==
  {serialize(p) : p \in RemotePackets}
    \cup {BadMagic(serialize(Response(TResponseType.RESP_OK))),
          BadChecksum(serialize(Response(TResponseType.RESP_OK)))}

\* an acknowledgement carrying a value, and a damaged one
ShortFrames ==
  {serialize([Response(TResponseType.RESP_OK) EXCEPT !.params[1] = 7]),
   BadChecksum(serialize(Response(TResponseType.RESP_OK)))}

Arrive(f) ==
  /\ Len(rx) < MaxRxFrames * COMMS_PACKET_SIZE
  /\ rx' = rx \o f
  /\ call' = IF InReceive THEN [call EXCEPT !.arrived = FirstFrame(@ \o f)] ELSE call

\* the remote answers a frame it received with one frame
RemoteReply ==
  /\ pending
  /\ pending' = FALSE
  /\ \E f \in RemoteFrames : Arrive(f)
  /\ UNCHANGED <<ack_received, events, pc, buffer, packet, hist, prevSend,
                 sendClosedGate, typed, loop>>

\* the same, the answer an acknowledgement
RemoteReplyShort ==
  /\ pending
  /\ pending' = FALSE
  /\ \E f \in ShortFrames : Arrive(f)
  /\ UNCHANGED <<ack_received, events, pc, buffer, packet, hist, prevSend,
                 sendClosedGate, typed, loop>>

\* the remote answers every frame it received with one RESPONSE/OK frame
RemoteAck ==
  /\ pending
  /\ pending' = FALSE
  /\ Arrive(serialize(Response(TResponseType.RESP_OK)))
  /\ UNCHANGED <<ack_received, events, pc, buffer, packet, hist, prevSend,
                 sendClosedGate, typed, loop>>

\* a frame nobody asked for
Unsolicited ==
  /\ \E f \in RemoteFrames : Arrive(f)
  /\ UNCHANGED <<ack_received, events, pending, pc, buffer, packet, hist,
                 prevSend, sendClosedGate, typed, loop>>

\* The program calls sendPacket, receivePacket and waitForHelloRoutine in any
\* order; the line delivers frames whole, asked for or not.
Next ==
  \/ CallSend
  \/ CallReceive
  \/ RecvCheck
  \/ RecvReadAll
  \/ HelloStart
  \/ HelloCheck
  \/ ExternalSet
  \/ RemoteReply
  \/ Unsolicited

Spec == Init /\ [][Next]_vars

\* Reads of every size: a frame reaches receivePacket in any number of pieces.
NextPartial ==
  \/ CallSendStop
  \/ CallReceive
  \/ CallReceiveWith
  \/ RecvCheck
  \/ RecvRead
  \/ ExternalSet
  \/ ExternalSetCustom
  \/ RemoteReplyShort

SpecPartial == Init /\ [][NextPartial]_vars

\* The same with the scheduling stated: the calling thread keeps running and
\* every readSerial returns, with or without bytes.
SpecCancel ==
  Init /\ [][NextPartial]_vars /\ WF_vars(RecvCheck) /\ WF_vars(RecvRead)

\* Every argument of sendPacket; the remote sends nothing it was not asked for.
NextPolite ==
  \/ CallSend
  \/ CallReceive
  \/ RecvCheck
  \/ RecvReadAll
  \/ HelloStart
  \/ HelloCheck
  \/ ExternalSet
  \/ RemoteReply

SpecPolite == Init /\ [][NextPolite]_vars

\* The realtime control loop, called with the module's flag or the caller's.
NextLoop ==
  \/ CallRun
  \/ CallRunWith
  \/ LoopKey
  \/ LoopExit
  \/ RecvCheck
  \/ RecvReadAll
  \/ ExternalSet
  \/ ExternalSetCustom
  \/ RemoteReply
  \/ Unsolicited

SpecLoop == Init /\ [][NextLoop]_vars

\* The same with the scheduling stated: the calling thread keeps running and
\* every readSerial returns, with or without bytes.
SpecLoopFair ==
  Init /\ [][NextLoop]_vars
    /\ WF_vars(RecvCheck) /\ WF_vars(RecvReadAll) /\ WF_vars(LoopExit)

\* The codec alone: a packet is serialized and the frame deserialized.
NextCodec ==
  \/ CallSerialize
  \/ CallDeserialize

SpecCodec == Init /\ [][NextCodec]_vars

\* The control loop in a session whose handshake succeeded, with a remote that
\* acknowledges every frame and sends nothing else.
NextSession ==
  \/ CallRun
  \/ CallRunWith
  \/ LoopKey
  \/ LoopExit
  \/ RecvCheck
  \/ RecvReadAll
  \/ ExternalSet
  \/ ExternalSetCustom
  \/ RemoteAck

SpecSession == Init /\ [][NextSession]_vars

\* line 337: waitForHelloRoutine() as the first call of the program
MainStart ==
  /\ hist.op = "none"
  /\ loop.how = "none"
  /\ HelloStart

\* line 338: run_keypress_control(), reached when the handshake returned
MainRun ==
  /\ hist.op = "hello"
  /\ hist.outcome = "returned"
  /\ CallRun

\* The program of lines 334-340: the handshake, then the loop; the remote
\* answers the frames it receives.
NextMain ==
  \/ MainStart
  \/ HelloCheck
  \/ MainRun
  \/ LoopKey
  \/ LoopExit
  \/ RecvCheck
  \/ RecvReadAll
  \/ ExternalSet
  \/ RemoteReply

SpecMain == Init /\ [][NextMain]_vars

\* The codec on a line that damages the frame.
NextDamage ==
  \/ SerializeFirst
  \/ CallDeserializeDamaged

SpecDamage == Init /\ [][NextDamage]_vars

\* The command interpreter, with the gate open or closed.
NextInterp ==
  \/ CallParse
  \/ CallSendStop

InitInterp ==
  /\ Imported
  /\ typed \in {[present |-> TRUE, in |-> in, reply |-> reply] :
                  in \in LineInputs, reply \in Replies}

SpecInterp == InitInterp /\ [][NextInterp]_vars


(***************************************************************************)
(* Properties.                                                             *)
(***************************************************************************)
FramesOf(outcome) == IF outcome = "sent" THEN 1 ELSE 0

IsOkResponse(p) ==
  /\ p # PyNone
  /\ p.packetType = TPacketType.PACKET_TYPE_RESPONSE
  /\ p.command = TResponseType.RESP_OK

\* C1 as stated: of two consecutive sendPacket calls with no receivePacket
\* returning a packet between them (the first one not raising), exactly one
\* frame is written in total and the second call writes nothing.
C1_ExactlyOneFrame ==
  (hist.op = "send" /\ hist.prevSend \in {"sent", "refused"})
    => /\ hist.wrote = <<>>
       /\ FramesOf(hist.prevSend) + Len(hist.wrote) = 1

\* C1 amended: the second of two such calls writes nothing and leaves the gate
\* closed, so the two write at most one frame in total: exactly one when the
\* first call wrote its frame, none when the first call was itself refused or
\* raised.
C1_SecondSendWritesNothing ==
  (hist.op = "send" /\ hist.prevSend # "none")
    => /\ hist.wrote = <<>>
       /\ hist.outcome = "refused"
       /\ ~hist.gateAfter
       /\ FramesOf(hist.prevSend) + Len(hist.wrote) <= 1

C1_Witness ==
  /\ hist.op = "send"
  /\ hist.prevSend = "sent"
  /\ hist.outcome = "refused"
  /\ hist.args[3] = IntList(PAYLOAD_PARAMS_COUNT)

\* C2: after a sendPacket has closed the gate, the gate is open after the next
\* receivePacket exactly when that call returned a RESPONSE packet with RESP_OK.
C2_GateReopensOnlyOnOkResponse ==
  (hist.op = "recv" /\ hist.call.afterSend)
    => (hist.gateAfter <=> IsOkResponse(hist.ret))

\* C3: a sendPacket call made with the gate closed writes nothing, leaves the
\* gate closed, raises nothing and leaves the Events as they were, whatever its
\* arguments.
C3_GatedSendChangesNothing ==
  (hist.op = "send" /\ ~hist.gateBefore)
    => /\ hist.wrote = <<>>
       /\ ~hist.gateAfter
       /\ ~hist.raised
       /\ hist.eventsAfter = hist.eventsBefore

C3_Witness ==
  /\ hist.op = "send"
  /\ ~hist.gateBefore
  /\ hist.args[3] = BadList(PAYLOAD_PARAMS_COUNT)
  /\ hist.outcome = "refused"

\* the k given values followed by zeros up to PAYLOAD_PARAMS_COUNT
ZeroFilled(params) ==
  [i \in 1..PAYLOAD_PARAMS_COUNT |->
     IF i <= Len(params) THEN IntOf(params[i]) % ParamModulus ELSE 0]

\* C4: a sendPacket call made with the gate open and a list of k integers,
\* 0 <= k <= PAYLOAD_PARAMS_COUNT, closes the gate and writes exactly one
\* frame, whose params are the k values followed by zeros.
C4_OpenGateSendTransmits ==
  (/\ hist.op = "send"
   /\ hist.gateBefore
   /\ Len(hist.args[3]) <= PAYLOAD_PARAMS_COUNT
   /\ \A i \in 1..Len(hist.args[3]) : ~IntRaises(hist.args[3][i]))
    => /\ ~hist.gateAfter
       /\ ~hist.raised
       /\ hist.wrote =
            <<serialize([TPacket EXCEPT !.packetType = hist.args[1],
                                        !.command = hist.args[2],
                                        !.params = ZeroFilled(hist.args[3])])>>

\* C5: when the FRAME_SIZE bytes a receivePacket call accumulated fail to
\* decode (PACKET_BAD or PACKET_CHECKSUM_BAD), the call returns None, the gate
\* is closed afterwards, nothing is written and nothing is raised.
C5_DecodeFailure ==
  (/\ hist.op = "recv"
   /\ hist.outcome # "cancelled"
   /\ deserialize(FirstFrame(hist.call.arrived)).status
        \in {TResultType.PACKET_BAD, TResultType.PACKET_CHECKSUM_BAD})
    => /\ hist.ret = PyNone
       /\ ~hist.gateAfter
       /\ ~ack_received
       /\ hist.wrote = <<>>
       /\ ~hist.raised

C5_Witness ==
  /\ hist.op = "recv"
  /\ hist.outcome = "decode_error"
  /\ hist.gateBefore
  /\ ~ack_received
  /\ deserialize(FirstFrame(hist.call.arrived)).status = TResultType.PACKET_CHECKSUM_BAD

\* C6: however the reads of one receivePacket call split a valid frame, zero-byte
\* reads included, the call returns the packet of that frame, decodes once and
\* opens the gate; and no call decodes fewer than COMMS_PACKET_SIZE bytes.
C6_PartialReadAssembly ==
  /\ (hist.op = "recv" /\ hist.decodes > 0) => hist.decodedLen = COMMS_PACKET_SIZE
  /\ (/\ hist.op = "recv"
      /\ hist.outcome # "cancelled"
      /\ deserialize(FirstFrame(hist.call.arrived)).status = TResultType.PACKET_OK)
       => /\ hist.ret = deserialize(FirstFrame(hist.call.arrived)).payload
          /\ hist.decodes = 1
          /\ hist.gateAfter

C6_Witness ==
  /\ hist.op = "recv"
  /\ hist.outcome = "packet"
  /\ hist.call.chunks = 2
  /\ hist.call.zeroRead
  /\ ~hist.gateBefore
  /\ hist.ret = [Response(TResponseType.RESP_OK) EXCEPT !.params[1] = 7]

HelloFrame ==
  serialize([TPacket EXCEPT !.packetType = TPacketType.PACKET_TYPE_HELLO,
                            !.command = TCommandType.COMMAND_STOP])

\* C8 as stated: waitForHelloRoutine writes exactly one HELLO frame with
\* all-zero params, makes one receivePacket call, and returns normally exactly
\* when that call returned a RESPONSE packet with RESP_OK.
C8_AlwaysOneHelloFrame ==
  hist.op = "hello"
    => /\ hist.wrote = <<HelloFrame>>
       /\ hist.call.caller = "hello"
       /\ (hist.outcome = "returned" <=> IsOkResponse(hist.ret))

\* C8 amended: started with the gate open the routine writes exactly one HELLO
\* frame with all-zero params, started with the gate closed it writes nothing;
\* either way it makes one receivePacket call and returns normally exactly when
\* that call returned a RESPONSE packet with RESP_OK, and raises otherwise.
C8_HandshakeOutcome ==
  hist.op = "hello"
    => /\ hist.wrote = IF hist.call.helloGate THEN <<HelloFrame>> ELSE <<>>
       /\ hist.call.caller = "hello"
       /\ (hist.outcome = "returned" <=> IsOkResponse(hist.ret))
       /\ (hist.raised <=> hist.outcome = "raised")
       /\ hist.outcome \in {"returned", "raised"}

C8_Witness ==
  /\ hist.op = "hello"
  /\ hist.call.helloGate
  /\ hist.raised
  /\ hist.ret # PyNone
  /\ hist.ret.packetType = TPacketType.PACKET_TYPE_RESPONSE

\* every sendPacket is refused and no byte will arrive
Stuck ==
  /\ ~ack_received
  /\ ~pending
  /\ Len(rx) + Len(buffer) < COMMS_PACKET_SIZE

\* once Stuck, always Stuck, when the remote sends nothing it was not asked for
StuckIsForever == [][Stuck => Stuck']_vars

\* C9: after a receivePacket call returned None for a frame that failed to
\* decode, the session is not in a state where every later sendPacket is
\* refused and every later receivePacket blocks.
C9_DecodeErrorRecoverable ==
  (hist.op = "recv" /\ hist.outcome = "decode_error") => ~Stuck


Arity(tok) ==
  IF tok \in {<<"f">>, <<"b">>, <<"l">>, <<"r">>} THEN 2
  ELSE IF tok \in {<<"s">>, <<"c">>, <<"g">>} THEN 0
  ELSE -1

Mapped(tok) ==
  IF tok = <<"f">> THEN TCommandType.COMMAND_FORWARD
  ELSE IF tok = <<"b">> THEN TCommandType.COMMAND_REVERSE
  ELSE IF tok = <<"l">> THEN TCommandType.COMMAND_TURN_LEFT
  ELSE IF tok = <<"r">> THEN TCommandType.COMMAND_TURN_RIGHT
  ELSE IF tok = <<"s">> THEN TCommandType.COMMAND_STOP
  ELSE IF tok = <<"c">> THEN TCommandType.COMMAND_CLEAR_STATS
  ELSE TCommandType.COMMAND_GET_STATS

\* C10: for a line whose first token is a command of arity N and that supplies
\* at least N parameter tokens, parseUserInput returns (COMMAND, the mapped
\* command, params) with params of length PAYLOAD_PARAMS_COUNT, the first N
\* supplied tokens in order followed by zeros, and does not prompt.
C10_ParameterArity ==
  (/\ hist.op = "parse"
   /\ hist.args[1].toks # <<>>
   /\ Arity(hist.args[1].toks[1]) >= 0
   /\ Len(hist.args[1].toks) - 1 >= Arity(hist.args[1].toks[1]))
    => LET toks == hist.args[1].toks
           n == Arity(toks[1])
           r == hist.result
       IN  /\ r.kind = "command"
           /\ r.packetType = TPacketType.PACKET_TYPE_COMMAND
           /\ r.command = Mapped(toks[1])
           /\ Len(r.params) = PAYLOAD_PARAMS_COUNT
           /\ \A i \in 1..PAYLOAD_PARAMS_COUNT :
                r.params[i] = IF i <= n THEN PyStr(toks[i + 1]) ELSE PyInt(0)
           /\ r.prompts = 0

C10_Witness ==
  /\ hist.op = "parse"
  /\ hist.args[1].toks = <<<<"f">>, <<"1", "0">>, <<"5", "0">>, <<"5", "0">>>>
  /\ hist.args[1].sep = <<" ", " ">>
  /\ hist.args[1].lead # <<>>
  /\ hist.result.kind = "command"
  /\ hist.result.params[2] = PyStr(<<"5", "0">>)
  /\ hist.result.params[3] = PyInt(0)

\* a parse of a line whose command has arity 2 and that gives k < 2 values
ShortOfTwo ==
  /\ hist.op = "parse"
  /\ hist.args[1].toks # <<>>
  /\ Arity(hist.args[1].toks[1]) = 2
  /\ Len(hist.args[1].toks) - 1 < 2

HasSpace(s) == \E i \in 1..Len(s) : s[i] = " "

\* C11: for a command of arity 2 given fewer than 2 parameters the interpreter
\* prompts exactly once, whatever the reply; when the reply does not hold two
\* space-separated values either, the result is the invalid-input outcome and
\* no command is produced.
C11_BoundedReprompt ==
  ShortOfTwo
    => /\ hist.result.prompts = 1
       /\ ~HasSpace(hist.args[2])
            => /\ hist.result.kind = "none"
               /\ hist.result.command = -1
               /\ hist.result.params = <<>>
               /\ hist.result.printed = "Invalid Parameters"

C11_Witness ==
  /\ ShortOfTwo
  /\ hist.args[1].toks = <<<<"l">>>>
  /\ hist.args[2] = <<>>
  /\ hist.result.prompts = 1
  /\ hist.result.kind = "none"

\* C12 as stated: a line giving k < 2 values and a reply giving the 2 - k
\* missing ones resolve to the line's values followed by the reply's.
C12_ReplySuppliesMissing ==
  (/\ ShortOfTwo
   /\ Len(NonEmpty(SplitSpace(hist.args[2]))) = 2 - (Len(hist.args[1].toks) - 1))
    => /\ hist.result.kind = "command"
       /\ hist.result.params =
            StrItems(Tail(hist.args[1].toks) \o NonEmpty(SplitSpace(hist.args[2])))
              \o Zeros(PAYLOAD_PARAMS_COUNT - 2)

\* C12: a line giving k < 2 values is resolved from the reply alone: a reply of
\* at least two space-separated pieces gives the command with the reply's first
\* two pieces and zeros, the line's values dropped; any other reply is
\* rejected, a reply of the one missing value included.
C12_RepromptReplacesLine ==
  ShortOfTwo
    => LET q == SplitSpace(hist.args[2])
       IN  IF HasSpace(hist.args[2])
             THEN /\ hist.result.kind = "command"
                  /\ hist.result.command = Mapped(hist.args[1].toks[1])
                  /\ hist.result.params =
                       <<PyStr(q[1]), PyStr(q[2])>> \o Zeros(PAYLOAD_PARAMS_COUNT - 2)
             ELSE /\ hist.result.kind = "none"
                  /\ hist.result.printed = "Invalid Parameters"

C12_Witness ==
  /\ ShortOfTwo
  /\ hist.args[1].toks = <<<<"f">>, <<"5", "0">>>>
  /\ hist.args[2] = <<"1", "0", " ", "5", "0">>
  /\ hist.result.kind = "command"
  /\ hist.result.params[1] = PyStr(<<"1", "0">>)
  /\ hist.result.params[2] = PyStr(<<"5", "0">>)

\* the command letters of lines 170-198
KnownTokens == {<<"f">>, <<"b">>, <<"l">>, <<"r">>, <<"s">>, <<"c">>, <<"g">>, <<"q">>}

\* C13: parsing a line that has no token, or whose first token is none of
\* f b l r s c g q, yields the invalid-input outcome with no command triple and
\* no prompt, writes no frame, and leaves the gate, the serial line and every
\* Event as they were.
C13_InvalidInputNoTraffic ==
  [][(/\ typed.present
      /\ ~typed'.present
      /\ (typed.in.toks = <<>> \/ typed.in.toks[1] \notin KnownTokens))
       => /\ hist'.op = "parse"
          /\ hist'.result.kind = "none"
          /\ hist'.result.command = -1
          /\ hist'.result.params = <<>>
          /\ hist'.result.prompts = 0
          /\ hist'.result.printed = "not a valid command"
          /\ UNCHANGED <<ack_received, events, rx, pending, prevSend>>]_vars

C13_Witness ==
  /\ hist.op = "parse"
  /\ hist.args[1].toks = <<<<"f", "f">>, <<"1", "0">>, <<"5", "0">>>>
  /\ hist.result.kind = "none"
  /\ ~hist.gateBefore
  /\ ~ack_received
  /\ pending

\* C14 as stated: parsing a line whose first token is q sets the Event passed
\* as exitFlag, produces no command and no frame, and leaves the gate unchanged.
C14_QuitSetsGivenFlag ==
  (/\ hist.op = "parse"
   /\ hist.args[1].toks # <<>>
   /\ hist.args[1].toks[1] = <<"q">>)
    => /\ hist.eventsAfter[hist.args[3]]
       /\ hist.result.kind = "none"
       /\ hist.gateAfter = hist.gateBefore

\* the frame of a COMMAND packet with the given command and first two params
CommandFrame(c, first, second) ==
  serialize([TPacket EXCEPT !.packetType = TPacketType.PACKET_TYPE_COMMAND,
                            !.command = c, !.params[1] = first, !.params[2] = second])

\* C15 as stated: a z keypress with the gate open writes exactly one STOP
\* COMMAND frame with all params zero, and the loop goes on to its receive
\* step without raising.
C15_StopKeySendsStopFrame ==
  (loop.key = "z" /\ loop.gateBefore)
    => /\ loop.wrote = <<CommandFrame(TCommandType.COMMAND_STOP, 0, 0)>>
       /\ loop.how = "running"
       /\ InReceive

\* the command and the magnitude the claim gives a movement key
MoveCommand(key) ==
  IF key = "w" THEN TCommandType.COMMAND_FORWARD
  ELSE IF key = "s" THEN TCommandType.COMMAND_REVERSE
  ELSE IF key = "a" THEN TCommandType.COMMAND_TURN_LEFT
  ELSE TCommandType.COMMAND_TURN_RIGHT

Magnitude(key) == IF key \in {"w", "s"} THEN 2 ELSE 6

\* the power level of a speed key, the default when none was pressed
PowerOf(select) ==
  IF select = "2" THEN 75 ELSE IF select = "3" THEN 100 ELSE 50

\* C16: a w, s, a or d keypress makes one sendPacket call, of type COMMAND
\* with command FORWARD, REVERSE, TURN_LEFT, TURN_RIGHT and 16 params whose
\* values are the magnitude (2 for w/s, 6 for a/d), the speed of the most
\* recent 1/2/3 keypress (50 if none) and zeros, and with the gate open that
\* call writes the frame of exactly that packet; speed is always 50, 75 or 100
\* and only a 1/2/3 keypress changes it.
C16_MovementInputs ==
  /\ [](lower(loop.key) \in {"w", "s", "a", "d"}
          => /\ loop.called \in {"sent", "refused"}
             /\ hist.op = "send"
             /\ hist.args = loop.args
             /\ loop.args[1] = TPacketType.PACKET_TYPE_COMMAND
             /\ loop.args[2] = MoveCommand(lower(loop.key))
             /\ Len(loop.args[3]) = PAYLOAD_PARAMS_COUNT
             /\ \A i \in 1..PAYLOAD_PARAMS_COUNT :
                  /\ ~IntRaises(loop.args[3][i])
                  /\ IntOf(loop.args[3][i]) =
                       IF i = 1 THEN Magnitude(lower(loop.key))
                       ELSE IF i = 2 THEN PowerOf(loop.select)
                       ELSE 0
             /\ loop.wrote =
                  IF loop.gateBefore
                    THEN <<CommandFrame(MoveCommand(lower(loop.key)),
                                        Magnitude(lower(loop.key)),
                                        PowerOf(loop.select) % ParamModulus)>>
                    ELSE <<>>)
  /\ [](loop.how # "none" => /\ ~IntRaises(PyStr(loop.speed))
                             /\ IntOf(PyStr(loop.speed)) \in {50, 75, 100}
                             /\ IntOf(PyStr(loop.speed)) = PowerOf(loop.select))
  /\ [][(loop.how = "running" /\ loop'.speed # loop.speed)
          => /\ loop'.key \in {"1", "2", "3"}
             /\ IntOf(PyStr(loop'.speed)) = PowerOf(loop'.key)]_vars

C16_Witness ==
  /\ loop.key = "d"
  /\ loop.select = "3"
  /\ loop.called = "sent"
  /\ loop.wrote = <<CommandFrame(TCommandType.COMMAND_TURN_RIGHT, 6, 100)>>
  /\ pending
  /\ InReceive

\* C17 as stated: a 1/2/3 keypress changes only speed: no sendPacket call, no
\* frame, the gate as it was, and the loop back at polling for the next key
\* without a receive.
C17_SpeedSelectKeepsPolling ==
  loop.key \in {"1", "2", "3"}
    => /\ loop.called = "none"
       /\ loop.wrote = <<>>
       /\ ack_received = loop.gateBefore
       /\ pc = "loop_poll"

\* C18 as stated: the loop ends only through ESC, which sets the Exit Signal
\* without a send or a receive, or through the Exit Signal found set.
C18_LoopEndsOnlyByExit ==
  pc = "loop_ended"
    => /\ loop.how \in {"esc", "flag"}
       /\ events[loop.flag]
       /\ loop.how = "esc" => (loop.key = "ESC" /\ loop.called = "none")

\* C19 as stated: once the Exit Signal given to run_keypress_control is set
\* while the loop is inside its receive, the receive returns and the loop
\* terminates.
C19_ExternalShutdownReachesLoop ==
  (InReceive /\ call.caller = "loop" /\ events[loop.flag]) ~> (pc = "loop_ended")

\* the size of every frame: that of the frame of the zero packet
FRAME_SIZE == Len(serialize(TPacket))

\* C20: for every valid packet p, serialize(p) is FRAME_SIZE bytes, and
\* deserialize of it returns PACKET_OK and a packet equal to p in every field.
C20_CodecRoundTrip ==
  /\ hist.op \in {"serialize", "deserialize"}
       => /\ Len(hist.wrote[1]) = FRAME_SIZE
          /\ FRAME_SIZE = COMMS_PACKET_SIZE
  /\ hist.op = "deserialize"
       => /\ hist.outcome = TResultType.PACKET_OK
          /\ hist.ret = hist.args[1]

C20_Witness ==
  /\ hist.op = "deserialize"
  /\ hist.args[1].packetType = TPacketType.PACKET_TYPE_HELLO
  /\ hist.args[1].command = TCommandType.COMMAND_CLEAR_STATS
  /\ hist.args[1].params[PAYLOAD_PARAMS_COUNT] = ParamModulus - 2
  /\ \A i \in 1..DataLen : hist.args[1].data[i] = 255
  /\ hist.ret = hist.args[1]
  /\ hist.outcome = TResultType.PACKET_OK

\* C21: a valid frame with any single bit before its checksum byte flipped
\* decodes to PACKET_BAD or PACKET_CHECKSUM_BAD, never to PACKET_OK, and
\* returns no packet; a frame whose magic marker is wrong decodes to
\* PACKET_BAD whether its checksum fits or not.
C21_ChecksumSensitivity ==
  hist.op = "deserialize_damaged"
    => LET d == hist.args[2]
           f == hist.args[3]
           m == Len(COMMS_MAGIC_NUMBER)
       IN  /\ Len(f) = Len(hist.wrote[1])
           /\ f # hist.wrote[1]
           /\ hist.outcome \in {TResultType.PACKET_BAD, TResultType.PACKET_CHECKSUM_BAD}
           /\ hist.ret = PyNone
           /\ SubSeq(f, 1, m) # COMMS_MAGIC_NUMBER
                => hist.outcome = TResultType.PACKET_BAD

C21_Witness ==
  /\ hist.op = "deserialize_damaged"
  /\ hist.args[2].kind = "flip"
  /\ hist.args[2].at = COMMS_PACKET_SIZE - 1
  /\ hist.args[2].bit = 7
  /\ hist.args[1].params[1] = ParamModulus - 1
  /\ hist.outcome = TResultType.PACKET_CHECKSUM_BAD

\* C22 as stated: with the remote acknowledging every frame, no sendPacket
\* call of the loop is refused by the gate.
C22_NoLoopSendRefused == loop.called # "refused"

\* C23 as stated: a closed gate implies an outstanding frame, that is, every
\* step that closes an open gate is a sendPacket call that wrote its frame to
\* the Transport; no receive and no send that failed before writing closes it.
C23_ClosedGateMeansFrameWritten ==
  [][(ack_received /\ ~ack_received')
       => (hist'.op = "send" /\ hist'.wrote # <<>>)]_vars

\* the part of C23 about receives alone
C23_ReceiveNeverClosesGate ==
  [][(ack_received /\ ~ack_received') => hist'.op = "send"]_vars

\* the part of C23 about sends alone
C23_FailedSendKeepsGate ==
  [][(ack_received /\ ~ack_received' /\ hist'.op = "send")
       => hist'.wrote # <<>>]_vars

\* C24: every receivePacket call starts with an empty buffer; during the call
\* the buffer only grows, by no more than the bytes asked for, and never beyond
\* FRAME_SIZE; every read asks for FRAME_SIZE minus the bytes accumulated, at
\* least 1; the buffer holds only bytes that reached this call, never those a
\* cancelled call accumulated before it.
C24_ReceiveBufferDiscipline ==
  /\ [](InReceive =>
          /\ Len(buffer) < COMMS_PACKET_SIZE
          /\ buffer = SubSeq(call.arrived, 1, Len(buffer)))
  /\ [](pc = "recv_read" =>
          /\ readRequest(buffer) = COMMS_PACKET_SIZE - Len(buffer)
          /\ readRequest(buffer) >= 1)
  /\ [][(~InReceive /\ InReceive') => buffer' = <<>>]_vars
  /\ [][(InReceive /\ InReceive') =>
          /\ Len(buffer') >= Len(buffer)
          /\ SubSeq(buffer', 1, Len(buffer)) = buffer]_vars
  /\ [][(pc = "recv_read" /\ Len(rx') < Len(rx)) =>
          /\ Len(rx) - Len(rx') <= COMMS_PACKET_SIZE - Len(buffer)
          /\ InReceive' => buffer' = buffer \o SubSeq(rx, 1, Len(rx) - Len(rx'))]_vars

\* a call that has read the tail of a frame whose head an earlier, cancelled
\* call had read: its buffer holds the tail alone
C24_Witness ==
  /\ InReceive
  /\ buffer # <<>>
  /\ buffer[1] # COMMS_MAGIC_NUMBER[1]
  /\ rx = <<>>

\* the keys that make the loop call sendPacket
CommandKeys == {"w", "W", "s", "a", "d", "z"}

\* the gate is open whenever waitForHelloRoutine, started with the gate open,
\* returns normally
C25_GateOpenAfterHello ==
  (hist.op = "hello" /\ hist.outcome = "returned" /\ hist.call.helloGate)
    => ack_received

\* the first command of the loop after the handshake is written to the
\* Transport
C25_FirstCommandWritten ==
  [][(pc = "loop_poll" /\ hist.op = "none" /\ loop'.key \in CommandKeys)
       => (loop'.called = "sent" /\ loop'.wrote # <<>>)]_vars

\* C25 as stated: when waitForHelloRoutine, started with the gate open,
\* returns normally the gate is open, and the first command the control loop
\* issues afterwards is written to the Transport.
C25_HandshakeLeavesSessionSendable ==
  /\ [](C25_GateOpenAfterHello)
  /\ C25_FirstCommandWritten

====
